---- MODULE Spec2Model ----
(***************************************************************************)
(* Model of xmlParse.py: a SAX content handler (XmlContentHandler) that    *)
(* renders an indented view of an XML document, and the command-line       *)
(* driver around it.  Standard output is modelled as a sequence of tokens, *)
(* one per write call of the handler; strings of character data are        *)
(* sequences of one-character strings.                                     *)
(***************************************************************************)
EXTENDS Integers, Sequences, FiniteSets, TLC

\* ------------------------------------------------------------------ bounds
MaxArgs   == 2      \* command-line arguments after the program name
MaxEvents == 6      \* events the Event Source delivers in one run
MaxDepth  == 3      \* deepest nesting the Event Source produces
MaxTreeEvents == 7  \* events of one run over the reduced alphabet (SpecTree)
MaxInstances  == 2  \* handler instances one process constructs (SpecReuse)

\* ------------------------------------------------------------ input alphabets
Names     == {"a", "b"}
ArgTokens == {"-h", "--help", "doc.xml", "missing.xml"}
Readable  == {"doc.xml"}                          \* paths open() succeeds on
Fragments == { <<" ">>, <<" ", "H">>, <<"l", " ">>, <<>> }
AttrSets  == { <<>>, << <<"id", <<"7">> >>, <<"name", <<"x">> >> >> }
NoText    == <<>>
NoAttrs   == <<>>
TreeFragments == { <<" ">>, <<" ", "H">> }

VARIABLES
    argv,           \* sys.argv, argv[1] is the program name (Python argv[0])
    pc,             \* position of the driver
    exitStatus,     \* process exit status, -1 while running
    exception,      \* uncaught exception that ended the process, or "none"
    fileOpened,     \* open(sourceFileName) was called and succeeded
    elementStack,   \* XmlContentHandler.elementStack
    charBuffer,     \* XmlContentHandler.charBuffer
    nLastWritePos,  \* XmlContentHandler.nLastWritePos
    out,            \* everything written to sys.stdout, as tokens
    injectFaults,   \* the Event Source is a fault-injected one
    open,           \* Event Source: the elements of the document now open
    rootDone,       \* Event Source: the root element has been closed
    wellFormed,     \* the events delivered so far are a proper bracket prefix
    nEvents,        \* number of events delivered
    last,           \* the event handled last, as the Event Source saw it
    mark,           \* Len(out) before the event handled last
    instances       \* number of XmlContentHandler instances constructed

vars == << argv, pc, exitStatus, exception, fileOpened, elementStack,
           charBuffer, nLastWritePos, out, injectFaults, open, rootDone,
           wellFormed, nEvents, last, mark, instances >>

renderer == << elementStack, charBuffer, nLastWritePos >>
source   == << open, rootDone, wellFormed, nEvents, last, mark >>

\* ------------------------------------------------------------ output tokens
Tok(role, name, text) == [role |-> role, name |-> name, text |-> text]

\* writeSpaces: one SPACES write per index position
writeSpaces(pos) == [i \in 1..pos |-> Tok("space", "", NoText)]

\* writeNewLine: print('')
writeNewLine == << Tok("nl", "", NoText) >>

\* writeStartName
writeStartName(name) == << Tok("start", name, NoText) >>

\* writeEndName: '/name\n'
writeEndName(name) == << Tok("end", name, NoText) >>

\* variant: the test for the empty string is missing
writeElementDataAlways(data) == << Tok("data", "", data) >>

\* writeElementData: nothing is written for the empty string
writeElementData(data) ==
    IF data # <<>> THEN << Tok("data", "", data) >> ELSE << >>

\* variant: the last name of getNames() is left out
writeAttributesButLast(attributes) ==
    [i \in 1..(Len(attributes) - 1) |->
        Tok("attr", attributes[i][1], attributes[i][2])]

\* writeAttributes: one PARENSTMNT write per name of attributes.getNames()
writeAttributes(attributes) ==
    [i \in 1..Len(attributes) |-> Tok("attr", attributes[i][1], attributes[i][2])]

\* ------------------------------------------------------------ str.strip()
IsSpace(c) == c \in {" ", "\n", "\t"}

RECURSIVE lstrip(_)
lstrip(s) ==
    IF s = <<>> THEN s
    ELSE IF IsSpace(Head(s)) THEN lstrip(Tail(s)) ELSE s

RECURSIVE rstrip(_)
rstrip(s) ==
    IF s = <<>> THEN s
    ELSE IF IsSpace(s[Len(s)]) THEN rstrip(SubSeq(s, 1, Len(s) - 1)) ELSE s

strip(s) == rstrip(lstrip(s))

\* getCharacterData: the value returned (the buffer is cleared by the caller)
getCharacterData(buffer) == strip(buffer)

\* ------------------------------------------------------------ stack
\* variant: the position is taken after the append
pushElementToStackAfter(stack, name) ==
    [pos |-> Len(stack) + 1, stack |-> Append(stack, name)]

\* variant: insert(0, name), the newest entry is put first
pushElementToStackFront(stack, name) ==
    [pos |-> Len(stack), stack |-> << name >> \o stack]

\* pushElementToStack: position before the push, and the stack after it
pushElementToStack(stack, name) ==
    [pos |-> Len(stack), stack |-> Append(stack, name)]

\* variant: pop(0), the entry removed is the oldest one
popElementFromStackFirst(stack, name) ==
    LET length == Len(stack) IN
    IF length = 0
    THEN [outcome |-> "IndexError", pos |-> 0, stack |-> stack]
    ELSE IF name = stack[1]
         THEN [outcome |-> "ok", pos |-> length - 1, stack |-> Tail(stack)]
         ELSE [outcome |-> "TypeError", pos |-> 0, stack |-> Tail(stack)]

\* variant: the length is taken after the pop
popElementFromStackAfter(stack, name) ==
    LET length == Len(stack) IN
    IF length = 0
    THEN [outcome |-> "IndexError", pos |-> 0, stack |-> stack]
    ELSE IF name = stack[length]
         THEN [outcome |-> "ok", pos |-> length - 2,
               stack |-> SubSeq(stack, 1, length - 1)]
         ELSE [outcome |-> "TypeError", pos |-> 0,
               stack |-> SubSeq(stack, 1, length - 1)]

\* variant: the length is returned, not the index
popElementFromStackLen(stack, name) ==
    LET length == Len(stack) IN
    IF length = 0
    THEN [outcome |-> "IndexError", pos |-> 0, stack |-> stack]
    ELSE IF name = stack[length]
         THEN [outcome |-> "ok", pos |-> length,
               stack |-> SubSeq(stack, 1, length - 1)]
         ELSE [outcome |-> "TypeError", pos |-> 0,
               stack |-> SubSeq(stack, 1, length - 1)]

\* popElementFromStack.  list.pop() on an empty list raises IndexError.  On a
\* mismatch the entry is already removed and the print statement applies '%'
\* to a two-place format with the single operand WHITE, which raises
\* TypeError before anything is printed and before sys.exit(4) is reached.
popElementFromStack(stack, name) ==
    LET length == Len(stack) IN
    IF length = 0
    THEN [outcome |-> "IndexError", pos |-> 0, stack |-> stack]
    ELSE IF name = stack[length]
         THEN [outcome |-> "ok", pos |-> length - 1,
               stack |-> SubSeq(stack, 1, length - 1)]
         ELSE [outcome |-> "TypeError", pos |-> 0,
               stack |-> SubSeq(stack, 1, length - 1)]

\* variant: characters() trims each fragment as it arrives
appendCharactersTrimmed(buffer, content) == buffer \o strip(content)

\* characters, line 95: charBuffer += content
appendCharacters(buffer, content) == buffer \o content

\* variant: endElement records the position it closed at
lastWritePosAfterEndSet(pos, lastWritePos) == pos

\* endElement, lines 86-92: nLastWritePos is read, never assigned
lastWritePosAfterEnd(pos, lastWritePos) == lastWritePos

\* variant: '<=' in place of '<'
needsReindentLE(pos, lastWritePos) == pos <= lastWritePos

\* endElement line 90: is the closing marker re-positioned?
needsReindent(pos, lastWritePos) == pos < lastWritePos

\* ------------------------------------------------------------ driver
arg(i) == argv[i + 1]                 \* sys.argv[i]
IsHelp(s) == s = "-h" \/ s = "--help"

\* usage(exitFlag): print usage, sys.exit(exitFlag)
usage(exitFlag) ==
    /\ out' = Append(out, Tok("usage", "", NoText))
    /\ exitStatus' = exitFlag
    /\ exception' = "none"
    /\ pc' = "exited"

\* variant: the exception is swallowed and the run goes on
uncaughtContinues(exc) ==
    /\ exitStatus' = 1
    /\ exception' = exc
    /\ pc' = pc

\* An exception nobody catches: traceback on stderr, exit status 1
uncaught(exc) ==
    /\ exitStatus' = 1
    /\ exception' = exc
    /\ pc' = "exited"

\* variant: a parse error reported with the consistency status
statusOfParseAs4(outcome) ==
    CASE outcome = "eof"        -> 0
      [] outcome = "parseError" -> 4
      [] outcome = "osError"    -> 3

\* exit status main() gives for each way xml.sax.parse / open can end
statusOf(outcome) ==
    CASE outcome = "eof"        -> 0
      [] outcome = "parseError" -> 2
      [] outcome = "osError"    -> 3

NoEvent == [kind |-> "none", name |-> "", depth |-> 0, kids |-> 0,
            frags |-> 0, text |-> NoText, attrs |-> NoAttrs, pos |-> 0,
            startPos |-> 0]

Init ==
    /\ argv \in { <<"xmlParse.py">> \o s :
                    s \in UNION { [1..n -> ArgTokens] : n \in 0..MaxArgs } }
    /\ injectFaults \in BOOLEAN
    /\ pc = "start"
    /\ exitStatus = -1
    /\ exception = "none"
    /\ fileOpened = FALSE
    /\ elementStack = << >>
    /\ charBuffer = << >>
    /\ nLastWritePos = 0
    /\ out = << >>
    /\ open = << >>
    /\ rootDone = FALSE
    /\ wellFormed = TRUE
    /\ nEvents = 0
    /\ last = NoEvent
    /\ mark = 0
    /\ instances = 0

\* __main__ block, lines 116-121
Startup ==
    /\ pc = "start"
    /\ IF Len(argv) < 2
       THEN uncaught("IndexError") /\ out' = out      \* sys.argv[1]
       ELSE IF IsHelp(arg(1)) THEN usage(0)
       ELSE IF Len(argv) # 2 THEN usage(1)
       ELSE /\ pc' = "main"
            /\ UNCHANGED << out, exitStatus, exception >>
    /\ UNCHANGED << argv, fileOpened, renderer, injectFaults, source,
                    instances >>

\* main, line 103 and the OSError handler
OpenSource ==
    /\ pc = "main"
    /\ IF arg(1) \in Readable
       THEN /\ fileOpened' = TRUE
            /\ pc' = "parsing"
            /\ instances' = instances + 1
            /\ UNCHANGED << out, exitStatus, exception >>
       ELSE /\ fileOpened' = FALSE
            /\ instances' = instances
            /\ out' = Append(out, Tok("failedToOpen", arg(1), NoText))
            /\ exitStatus' = statusOf("osError")
            /\ exception' = "none"
            /\ pc' = "exited"
    /\ UNCHANGED << argv, renderer, injectFaults, source >>

\* ------------------------------------------------------------ Event Source
CanStart == IF open = << >> THEN ~rootDone ELSE Len(open) < MaxDepth
CanEnd(name) == open # << >> /\ open[Len(open)].name = name
Front(s) == SubSeq(s, 1, Len(s) - 1)
Top(s) == s[Len(s)]

Deliver ==
    /\ pc = "parsing"
    /\ nEvents' = nEvents + 1
    /\ mark' = Len(out)
    /\ instances' = instances

\* startElement
startElement(name, attributes) ==
    /\ Deliver
    /\ injectFaults \/ CanStart
    /\ Len(elementStack) < MaxDepth + 1
    /\ LET r == pushElementToStack(elementStack, name) IN
        /\ elementStack' = r.stack
        /\ out' = out \o writeNewLine \o writeSpaces(r.pos)
                      \o writeStartName(name) \o writeAttributes(attributes)
        /\ nLastWritePos' = r.pos
    /\ wellFormed' = (wellFormed /\ CanStart)
    /\ last' = [kind |-> "start", name |-> name, depth |-> Len(open),
                kids |-> 0, frags |-> 0, text |-> NoText,
                attrs |-> attributes,
                pos |-> pushElementToStack(elementStack, name).pos,
                startPos |-> pushElementToStack(elementStack, name).pos]
    /\ open' = LET e == [name |-> name, kids |-> 0, frags |-> 0,
                         text |-> NoText,
                         pos |-> pushElementToStack(elementStack, name).pos]
               IN IF open = << >> THEN << e >>
                  ELSE Append([open EXCEPT ![Len(open)].kids = @ + 1], e)
    /\ UNCHANGED << argv, pc, exitStatus, exception, fileOpened, charBuffer,
                    injectFaults, rootDone >>

\* characters
characters(content) ==
    /\ Deliver
    /\ injectFaults \/ open # << >>
    /\ charBuffer' = appendCharacters(charBuffer, content)
    /\ wellFormed' = (wellFormed /\ open # << >>)
    /\ last' = [kind |-> "chars", name |-> "", depth |-> Len(open),
                kids |-> 0, frags |-> 0, text |-> content,
                attrs |-> NoAttrs, pos |-> 0, startPos |-> 0]
    /\ open' = IF open = << >> THEN open
               ELSE [open EXCEPT ![Len(open)].text = @ \o content,
                                 ![Len(open)].frags = @ + 1]
    /\ UNCHANGED << argv, pc, exitStatus, exception, fileOpened, elementStack,
                    nLastWritePos, out, injectFaults, rootDone >>

\* endElement
endElement(name) ==
    /\ Deliver
    /\ injectFaults \/ CanEnd(name)
    /\ LET r == popElementFromStack(elementStack, name) IN
        /\ elementStack' = r.stack
        /\ nLastWritePos' = IF r.outcome = "ok"
                            THEN lastWritePosAfterEnd(r.pos, nLastWritePos)
                            ELSE nLastWritePos
        /\ IF r.outcome = "ok"
           THEN /\ charBuffer' = << >>
                /\ out' = out \o writeElementData(getCharacterData(charBuffer))
                              \o (IF needsReindent(r.pos, nLastWritePos)
                                  THEN writeSpaces(r.pos) ELSE << >>)
                              \o writeEndName(name)
                /\ UNCHANGED << pc, exitStatus, exception >>
           ELSE /\ uncaught(r.outcome)
                /\ UNCHANGED << charBuffer, out >>
    /\ wellFormed' = (wellFormed /\ CanEnd(name))
    /\ last' = IF open = << >>
               THEN [kind |-> "end", name |-> name, depth |-> 0, kids |-> 0,
                     frags |-> 0, text |-> NoText, attrs |-> NoAttrs,
                     pos |-> popElementFromStack(elementStack, name).pos,
                     startPos |-> 0]
               ELSE [kind |-> "end", name |-> name, depth |-> Len(open) - 1,
                     kids |-> Top(open).kids, frags |-> Top(open).frags,
                     text |-> Top(open).text, attrs |-> NoAttrs,
                     pos |-> popElementFromStack(elementStack, name).pos,
                     startPos |-> Top(open).pos]
    /\ open' = IF open = << >> THEN open ELSE Front(open)
    /\ rootDone' = (rootDone \/ Len(open) = 1)
    /\ UNCHANGED << argv, fileOpened, injectFaults >>

\* xml.sax.parse raises SAXParseException; main, lines 106-110
ParseError ==
    /\ pc = "parsing"
    /\ out' = Append(out, Tok("failedToParse", arg(1), NoText))
    /\ exitStatus' = statusOf("parseError")
    /\ exception' = "none"
    /\ pc' = "exited"
    /\ UNCHANGED << argv, fileOpened, renderer, injectFaults, source,
                    instances >>

\* xml.sax.parse returns; __main__ block, lines 122-123
EndDocument ==
    /\ pc = "parsing"
    /\ injectFaults \/ (open = << >> /\ rootDone)
    /\ wellFormed' = (wellFormed /\ open = << >> /\ rootDone)
    /\ out' = out \o writeNewLine
    /\ exitStatus' = statusOf("eof")
    /\ exception' = "none"
    /\ pc' = "exited"
    /\ UNCHANGED << argv, fileOpened, renderer, injectFaults, open, rootDone,
                    nEvents, last, mark, instances >>

\* the events of one run of the full alphabet, at most MaxEvents of them
StartElement(name, attributes) ==
    nEvents < MaxEvents /\ startElement(name, attributes)

Characters(content) == nEvents < MaxEvents /\ characters(content)

EndElement(name) == nEvents < MaxEvents /\ endElement(name)

Next ==
    \/ Startup
    \/ OpenSource
    \/ \E name \in Names, attributes \in AttrSets : StartElement(name, attributes)
    \/ \E content \in Fragments : Characters(content)
    \/ \E name \in Names : EndElement(name)
    \/ ParseError
    \/ EndDocument

Spec == Init /\ [][Next]_vars

TypeOK ==
    /\ pc \in {"start", "main", "parsing", "exited"}
    /\ exitStatus \in -1..4
    /\ Len(elementStack) <= MaxDepth + 1

\* ------------------------------------------------------------ reduced alphabet
\* One run of the script on a readable document with a conformant Event
\* Source, elements without attributes: longer event sequences.
InitTree ==
    /\ Init
    /\ argv = << "xmlParse.py", "doc.xml" >>
    /\ injectFaults = FALSE

TreeEvents(limit) ==
    \/ \E name \in Names : nEvents < limit /\ startElement(name, NoAttrs)
    \/ \E content \in TreeFragments : nEvents < limit /\ characters(content)
    \/ \E name \in Names : nEvents < limit /\ endElement(name)

NextTree ==
    \/ Startup
    \/ OpenSource
    \/ TreeEvents(MaxTreeEvents)
    \/ ParseError
    \/ EndDocument

SpecTree == InitTree /\ [][NextTree]_vars

\* ------------------------------------------------------------ a second parse
\* main() called again in the same process (the module imported, SystemExit
\* caught by the caller): line 105 constructs a new XmlContentHandler.
\* charBuffer and nLastWritePos are rebound on the instance by the handlers,
\* so the new instance reads the class values '' and 0; elementStack is
\* mutated in place by append/pop, so every instance shares the class list.
mainAgain ==
    /\ pc = "exited"
    /\ fileOpened
    /\ instances < MaxInstances
    /\ instances' = instances + 1
    /\ pc' = "parsing"
    /\ exitStatus' = -1
    /\ exception' = "none"
    /\ charBuffer' = << >>
    /\ nLastWritePos' = 0
    /\ elementStack' = elementStack
    /\ open' = << >>
    /\ rootDone' = FALSE
    /\ wellFormed' = TRUE
    /\ last' = NoEvent
    /\ mark' = Len(out)
    /\ UNCHANGED << argv, fileOpened, out, injectFaults, nEvents >>

NextReuse ==
    \/ Startup
    \/ OpenSource
    \/ TreeEvents(MaxEvents)
    \/ ParseError
    \/ EndDocument
    \/ mainAgain

SpecReuse == InitTree /\ [][NextReuse]_vars

\* ------------------------------------------------------------ properties
\* what the handler of the last event wrote
lastOut == SubSeq(out, mark + 1, Len(out))
Count(toks, role) == Len(SelectSeq(toks, LAMBDA t : t.role = role))
DataTokens(toks) == SelectSeq(toks, LAMBDA t : t.role = "data")
RenderedText(toks) ==
    IF DataTokens(toks) = << >> THEN NoText ELSE DataTokens(toks)[1].text
HasHelpFlag == \E i \in 2..Len(argv) : IsHelp(argv[i])
\* an end event of a well-formed sequence has just been rendered
EndRendered == wellFormed /\ pc = "parsing" /\ last.kind = "end"

\* C1: at EndElement(e) of a well-formed sequence the data rendered is e's
\* direct text content: the Characters fragments delivered while e was the
\* innermost open element, joined in order and trimmed.
C1_DirectText ==
    EndRendered => RenderedText(lastOut) = strip(last.text)

\* C2: re-indent rule.  At EndElement of a well-formed sequence an element
\* without child elements gets no indentation unit; an element with a child
\* element gets exactly depth(element) units, immediately before its
\* closing marker.
C2_Reindent ==
    EndRendered =>
        LET n == Len(lastOut) IN
        /\ n >= 1
        /\ lastOut[n] = Tok("end", last.name, NoText)
        /\ last.kids = 0 => Count(lastOut, "space") = 0
        /\ last.kids > 0 =>
              /\ Count(lastOut, "space") = last.depth
              /\ n > last.depth
              /\ \A i \in (n - last.depth)..(n - 1) : lastOut[i].role = "space"

C2_Witness ==
    /\ EndRendered
    /\ last.kids > 0
    /\ last.depth = 1
    /\ Count(lastOut, "space") = 1
    /\ \E i \in 1..Len(out) : out[i].role = "end" /\ i <= mark

\* C3: depth monotonicity.  For every StartElement of a well-formed
\* sequence the handler writes a line break, then as many indentation units
\* as the element has open ancestors, then the element name.
C3_StartIndent ==
    (wellFormed /\ pc = "parsing" /\ last.kind = "start") =>
        /\ Len(lastOut) >= last.depth + 2
        /\ lastOut[1].role = "nl"
        /\ \A i \in 2..(last.depth + 1) : lastOut[i].role = "space"
        /\ lastOut[last.depth + 2] = Tok("start", last.name, NoText)
        /\ Count(lastOut, "space") = last.depth

C3_Witness ==
    /\ wellFormed /\ pc = "parsing" /\ last.kind = "start"
    /\ last.depth = 2
    /\ Count(lastOut, "space") = 2

\* C4: bracket symmetry.  While the events delivered are well-formed no
\* EndElement takes the mismatch path or pops the empty stack; when a
\* complete well-formed sequence has ended, start-tag renders and
\* closing-marker renders are equal in number and the stack is empty.
C4_BracketSymmetry ==
    (wellFormed /\ fileOpened) =>
        /\ exception = "none"
        /\ exitStatus # 4
        /\ exitStatus = 0 =>
              /\ Count(out, "start") = Count(out, "end")
              /\ elementStack = << >>

C4_Witness ==
    /\ wellFormed /\ fileOpened /\ exitStatus = 0
    /\ Count(out, "start") = 3
    /\ Count(out, "end") = 3

\* C5: when EndElement(name) is delivered and the stack top is another
\* name, the process terminates at once with exit status 4 and nothing is
\* rendered for that event.
C5_MismatchExits4 ==
    [][ ( /\ pc = "parsing" /\ nEvents' = nEvents + 1 /\ last'.kind = "end"
          /\ elementStack # << >>
          /\ Top(elementStack) # last'.name )
        => (pc' = "exited" /\ exitStatus' = 4 /\ out' = out) ]_vars

\* C6: when EndElement is delivered while the stack is empty, a guard of
\* the renderer handles it as a fatal condition of its own; the pop of the
\* empty stack is not attempted.
C6_EmptyStackGuard ==
    [][ ( /\ pc = "parsing" /\ nEvents' = nEvents + 1 /\ last'.kind = "end"
          /\ elementStack = << >> )
        => (pc' = "exited" /\ exception' = "none") ]_vars

\* C7: the exit status is 0 when the Event Source reaches the end of the
\* document, 2 when it signals a parse error (never 4), and 3 when the
\* input cannot be opened, in which case no event is delivered.
C7_ExitStatus ==
    [][ /\ EndDocument => exitStatus' = 0
        /\ ParseError => exitStatus' = 2
        /\ (OpenSource /\ ~fileOpened') =>
              (exitStatus' = 3 /\ nEvents' = 0 /\ pc' = "exited") ]_vars

C7_Witness ==
    /\ exitStatus = 2
    /\ ~injectFaults
    /\ nEvents >= 2
    /\ Len(open) = 2
    /\ Count(out, "start") = 2

\* C8: without a help flag, zero or more than one argument prints usage
\* and exits with status 1; no file is opened and no event handled.
C8_UsageError ==
    (pc # "start" /\ ~HasHelpFlag /\ Len(argv) # 2) =>
        /\ pc = "exited"
        /\ exitStatus = 1
        /\ out = << Tok("usage", "", NoText) >>
        /\ ~fileOpened
        /\ nEvents = 0

\* C9: a help flag at any argument position prints usage and exits with
\* status 0, whatever the number of arguments.
C9_HelpPrecedence ==
    (pc # "start" /\ HasHelpFlag) =>
        /\ pc = "exited"
        /\ exitStatus = 0
        /\ out = << Tok("usage", "", NoText) >>

\* C10: for an element without child elements that received at least one
\* Characters fragment, the text rendered at its EndElement is the trimmed
\* concatenation of its fragments.
C10_ConcatThenTrim ==
    (EndRendered /\ last.kids = 0 /\ last.frags >= 1) =>
        RenderedText(lastOut) = strip(last.text)

\* an event has just been delivered to the handler
Delivered == nEvents' = nEvents + 1
\* what the handler wrote in this step
Written == SubSeq(out', Len(out) + 1, Len(out'))
IsPrefix(a, b) == Len(a) <= Len(b) /\ SubSeq(b, 1, Len(a)) = a
OpenNames == [i \in 1..Len(open) |-> open[i].name]
\* index of the last line break before the final token of toks (0 if none)
LineStart(toks) ==
    LET brk == { i \in 1..(Len(toks) - 1) : toks[i].role \in {"nl", "end"} }
    IN IF brk = {} THEN 0 ELSE CHOOSE i \in brk : \A j \in brk : j <= i
\* indentation units written right before the most recent start tag
LastStartIndent(toks) ==
    LET st == { i \in 1..Len(toks) : toks[i].role = "start" } IN
    IF st = {} THEN 0
    ELSE LET k == CHOOSE i \in st : \A j \in st : j <= i
             ns == { i \in 1..(k - 1) : toks[i].role # "space" }
             b == IF ns = {} THEN 0 ELSE CHOOSE i \in ns : \A j \in ns : j <= i
         IN k - 1 - b

\* C11: at any EndElement that is rendered, no data token is written when
\* the drained buffer is empty after trimming, and exactly one data token
\* carrying the trimmed text is written when it is not.
C11_WhitespaceOnly ==
    [][ (pc = "parsing" /\ pc' = "parsing" /\ Delivered /\ last'.kind = "end")
        => /\ (\A i \in 1..Len(charBuffer) : IsSpace(charBuffer[i]))
                => Count(Written, "data") = 0
           /\ (\E i \in 1..Len(charBuffer) : ~IsSpace(charBuffer[i]))
                => /\ Count(Written, "data") = 1
                   /\ RenderedText(Written) = strip(charBuffer)
                   /\ RenderedText(Written) # NoText
                   /\ ~IsSpace(Head(RenderedText(Written)))
                   /\ ~IsSpace(RenderedText(Written)[Len(RenderedText(Written))])
      ]_vars

C11_Witness ==
    /\ EndRendered
    /\ last.kids = 0
    /\ last.frags = 2
    /\ Len(last.text) = 2
    /\ Count(lastOut, "data") = 0

\* C12: on StartElement every attribute of the set is written exactly once
\* as a (name = value) pair, after the element name, with no line break or
\* other token in between; an empty set writes no attribute token.
C12_Attributes ==
    (pc = "parsing" /\ last.kind = "start") =>
        LET n == Len(lastOut)
            a == last.attrs
        IN /\ n >= Len(a) + 1
           /\ lastOut[n - Len(a)] = Tok("start", last.name, NoText)
           /\ Count(lastOut, "attr") = Len(a)
           /\ \A j \in (n - Len(a) + 1)..n : lastOut[j].role = "attr"
           /\ \A i \in 1..Len(a) :
                Cardinality({ j \in 1..n :
                    lastOut[j] = Tok("attr", a[i][1], a[i][2]) }) = 1

C12_Witness ==
    /\ pc = "parsing" /\ last.kind = "start"
    /\ Len(last.attrs) = 2
    /\ Count(lastOut, "attr") = 2
    /\ last.depth = 1

\* C13: when EndElement of a well-formed sequence closes an element that
\* has a child element, the output line of the closing marker is exactly
\* depth indentation units followed by the marker.
C13_OwnLine ==
    (EndRendered /\ last.kids > 0) =>
        LET n == Len(out)
            k == LineStart(out)
        IN /\ n - k = last.depth + 1
           /\ \A i \in (k + 1)..(n - 1) : out[i].role = "space"
           /\ out[n] = Tok("end", last.name, NoText)

\* C14: a handler instance constructed for a parse starts with the empty
\* stack, the empty buffer and last-write column 0, whatever an earlier
\* instance of the same process handled.
C14_FreshInstance ==
    (pc = "parsing" /\ last.kind = "none") =>
        /\ elementStack = << >>
        /\ charBuffer = << >>
        /\ nLastWritePos = 0

\* C15: after every event of a well-formed sequence the stack is the names
\* of the open elements from the root to the innermost; it grows by one on
\* StartElement, shrinks by one on EndElement and is left alone by
\* Characters.
C15_StackInvariant ==
    [][ (pc = "parsing" /\ pc' = "parsing" /\ Delivered /\ wellFormed')
        => /\ elementStack' = OpenNames'
           /\ Len(elementStack') = Len(open')
           /\ last'.kind = "start" =>
                 /\ Len(elementStack') = Len(elementStack) + 1
                 /\ SubSeq(elementStack', 1, Len(elementStack)) = elementStack
           /\ last'.kind = "end" =>
                 /\ Len(elementStack') = Len(elementStack) - 1
                 /\ elementStack' = SubSeq(elementStack, 1, Len(elementStack'))
           /\ last'.kind = "chars" => elementStack' = elementStack
      ]_vars

C15_Witness ==
    /\ wellFormed /\ pc = "parsing"
    /\ elementStack = << "a", "b", "b" >>
    /\ last.kind = "chars"

\* C16: at every EndElement of a well-formed sequence the popped position
\* is at most the last-write column, and equals it exactly when the
\* element has no child element.
C16_LastWriteRelation ==
    EndRendered =>
        /\ last.pos <= nLastWritePos
        /\ (last.pos = nLastWritePos) <=> (last.kids = 0)

\* a leaf sibling closed after a subtree two levels deep: <a><b><c/></b><d/>
C16_Witness ==
    /\ EndRendered
    /\ last.kids = 0
    /\ last.pos = 1
    /\ Count(out, "start") = 4
    /\ Count(out, "end") = 3
    /\ \E i \in 3..Len(out) :
          /\ out[i].role = "start"
          /\ out[i - 1].role = "space"
          /\ out[i - 2].role = "space"

\* C17: push returns the length before the push, a successful pop returns
\* the index the removed entry had; the position computed at an element's
\* EndElement is the one computed at its StartElement, and push(n) followed
\* by pop(n) returns one position twice and restores the stack.
C17_PositionSymmetry ==
    /\ EndRendered => (last.pos = last.startPos /\ last.pos = last.depth)
    /\ pc = "parsing" =>
          \A n \in Names :
              LET p == pushElementToStack(elementStack, n)
                  q == popElementFromStack(p.stack, n)
              IN /\ p.pos = Len(elementStack)
                 /\ q.outcome = "ok"
                 /\ q.pos = p.pos
                 /\ q.stack = elementStack

C17_Witness ==
    /\ EndRendered
    /\ last.startPos = 2
    /\ last.pos = 2
    /\ elementStack = << "a", "b" >>

\* C18: EndElement and Characters never change the last-write column; only
\* StartElement writes it, with the position its push returned, so it is
\* always the indentation of the most recently rendered start tag (0
\* before any).
C18_LastWriteFrame ==
    [][ /\ nLastWritePos' # nLastWritePos => (Delivered /\ last'.kind = "start")
        /\ (Delivered /\ last'.kind = "start") => nLastWritePos' = last'.pos
        /\ nLastWritePos' = LastStartIndent(out')
      ]_vars

C18_Witness ==
    /\ EndRendered
    /\ nLastWritePos = 2
    /\ elementStack = << >>

\* C19: Characters appends its text verbatim to the buffer, writes nothing
\* and leaves the stack and the last-write column alone; StartElement
\* leaves the buffer alone; the buffer is emptied only by EndElement.
C19_CharactersFrame ==
    [][ /\ (Delivered /\ last'.kind = "chars") =>
              /\ charBuffer' = charBuffer \o last'.text
              /\ out' = out
              /\ elementStack' = elementStack
              /\ nLastWritePos' = nLastWritePos
        /\ (Delivered /\ last'.kind = "start") => charBuffer' = charBuffer
        /\ (charBuffer # << >> /\ charBuffer' = << >>) =>
              (Delivered /\ last'.kind = "end")
      ]_vars

C19_Witness ==
    /\ pc = "parsing"
    /\ last.kind = "chars"
    /\ last.text = << " ", "H" >>
    /\ charBuffer = << "l", " ", " ", "H" >>

\* C20: once the run has ended, with a fatal outcome or otherwise, no event
\* is handled and nothing changes; what was written stays, the output only
\* grows by appending.
C20_Terminal ==
    [][ exitStatus = -1 /\ IsPrefix(out, out') ]_vars

C20_Witness ==
    /\ pc = "exited"
    /\ exception = "TypeError"
    /\ Count(out, "end") >= 1
    /\ Count(out, "start") >= 2

====
